---- MODULE Spec2Model ----
(***************************************************************************)
(* Model of src/qa-test.js: one run of the async main function.  Each      *)
(* awaited backend call is split into the call and its settlement (the     *)
(* promise resolves or rejects); the statements between two awaits run at  *)
(* the program position held in pc.                                        *)
(***************************************************************************)
EXTENDS Naturals, Sequences, FiniteSets

VARIABLES pc, ip, browser, context, page, inflight, attempts, completed,
          faulted, error, log, closeCalls, videoSaved, exitCode

vars == <<pc, ip, browser, context, page, inflight, attempts, completed,
          faulted, error, log, closeCalls, videoSaved, exitCode>>

\* Number of distinct error.message texts a rejected call may carry.
NumMessages == 3

Messages == 1..NumMessages

\* No message: the value of error before anything was caught.
NoMessage == 0

\* The nine awaited calls of the try block.
StepNames == {"launch", "newContext", "newPage", "goto", "waitForSelector",
              "fill", "click", "waitForTimeout", "contextClose"}

\* Bug: context.close() left out of the try block.
Steps_NoContextClose ==
    <<"launch", "newContext", "newPage", "goto", "waitForSelector",
      "fill", "click", "waitForTimeout">>

\* Bug: the email field is filled before the form was waited for.
Steps_Swapped ==
    <<"launch", "newContext", "newPage", "goto", "fill",
      "waitForSelector", "click", "waitForTimeout", "contextClose">>

\* The awaited calls of the try block, in program order.
Steps ==
    <<"launch", "newContext", "newPage", "goto", "waitForSelector",
      "fill", "click", "waitForTimeout", "contextClose">>

Line(l) == [line |-> l, msg |-> NoMessage]

\* Bug: the success line is printed before context.close() is awaited.
PreLog_SuccessEarly(s) ==
    IF s = "goto" THEN <<Line("Navigating")>>
    ELSE IF s = "waitForSelector" THEN <<Line("Verifying")>>
    ELSE IF s = "contextClose" THEN <<Line("passed"), Line("Success")>>
    ELSE << >>

\* The console.log statements that run right before step s is called.
PreLog(s) ==
    IF s = "goto" THEN <<Line("Navigating")>>
    ELSE IF s = "waitForSelector" THEN <<Line("Verifying")>>
    ELSE IF s = "contextClose" THEN <<Line("passed")>>
    ELSE << >>

\* The status passed to process.exit in the catch block.
CatchExitCode == 1

\* Exit status of a process whose main promise rejects with no handler:
\* 1 where the runtime treats an unhandled rejection as fatal, 0 where it
\* only warns.
UnhandledExitCodes == {0, 1}

NoExit == 2

Init ==
    /\ pc = "start"
    /\ ip = 1
    /\ browser = "undefined"
    /\ context = "undefined"
    /\ page = "undefined"
    /\ inflight = {}
    /\ attempts = [s \in StepNames |-> 0]
    /\ completed = {}
    /\ faulted = "none"
    /\ error = NoMessage
    /\ log = << >>
    /\ closeCalls = 0
    /\ videoSaved = FALSE
    /\ exitCode = NoExit

\* console.log('Starting QA Agent Test...'); let browser; entering try.
Start ==
    /\ pc = "start"
    /\ log' = Append(log, Line("Starting"))
    /\ pc' = "try"
    /\ UNCHANGED <<ip, browser, context, page, inflight, attempts, completed,
                   faulted, error, closeCalls, videoSaved, exitCode>>

\* The next backend call of the try block is made, after the console.log
\* statements that precede it.
Call ==
    /\ pc = "try"
    /\ ip <= Len(Steps)
    /\ LET s == Steps[ip] IN
        /\ log' = log \o PreLog(s)
        /\ attempts' = [attempts EXCEPT ![s] = @ + 1]
        /\ inflight' = inflight \cup {s}
    /\ pc' = "await"
    /\ UNCHANGED <<ip, browser, context, page, completed, faulted, error,
                   closeCalls, videoSaved, exitCode>>

\* The awaited call resolves; its result is bound and execution goes on to
\* the statement after it.
Resolve ==
    /\ pc = "await"
    /\ LET s == Steps[ip] IN
        /\ inflight' = inflight \ {s}
        /\ completed' = completed \cup {s}
        /\ browser' = IF s = "launch" THEN "open" ELSE browser
        /\ context' = IF s = "newContext" THEN "open"
                      ELSE IF s = "contextClose" THEN "closed"
                      ELSE context
        /\ page' = IF s = "newPage" THEN "open"
                   ELSE IF s = "contextClose" /\ page = "open" THEN "closed"
                   ELSE page
        /\ videoSaved' = IF s = "contextClose" THEN TRUE ELSE videoSaved
    /\ ip' = ip + 1
    /\ pc' = IF ip = Len(Steps) THEN "success" ELSE "try"
    /\ UNCHANGED <<attempts, faulted, error, log, closeCalls, exitCode>>

\* Bug: the rejection is swallowed and the script goes on to the next step.
Reject_Swallow(m) ==
    /\ pc = "await"
    /\ inflight' = inflight \ {Steps[ip]}
    /\ faulted' = Steps[ip]
    /\ error' = m
    /\ ip' = ip + 1
    /\ pc' = IF ip = Len(Steps) THEN "success" ELSE "try"
    /\ UNCHANGED <<browser, context, page, attempts, completed, log,
                   closeCalls, videoSaved, exitCode>>

\* Bug: a rejected step is tried a second time before it is given up.
Reject_Retry(m) ==
    /\ pc = "await"
    /\ inflight' = inflight \ {Steps[ip]}
    /\ faulted' = Steps[ip]
    /\ error' = m
    /\ pc' = IF attempts[Steps[ip]] < 2 THEN "try" ELSE "catch"
    /\ UNCHANGED <<ip, browser, context, page, attempts, completed, log,
                   closeCalls, videoSaved, exitCode>>

\* The awaited call rejects with message m: control leaves the try block
\* for the catch block.
Reject(m) ==
    /\ pc = "await"
    /\ inflight' = inflight \ {Steps[ip]}
    /\ faulted' = Steps[ip]
    /\ error' = m
    /\ pc' = "catch"
    /\ UNCHANGED <<ip, browser, context, page, attempts, completed, log,
                   closeCalls, videoSaved, exitCode>>

\* console.log(`Success! Video saved in ...`), the last statement of try.
LogSuccess ==
    /\ pc = "success"
    /\ log' = Append(log, Line("Success"))
    /\ pc' = "finally"
    /\ UNCHANGED <<ip, browser, context, page, inflight, attempts, completed,
                   faulted, error, closeCalls, videoSaved, exitCode>>

\* console.error('QA test FAILED:', error.message).
CatchLog ==
    /\ pc = "catch"
    /\ log' = Append(log, [line |-> "FAILED", msg |-> error])
    /\ pc' = "exit"
    /\ UNCHANGED <<ip, browser, context, page, inflight, attempts, completed,
                   faulted, error, closeCalls, videoSaved, exitCode>>

\* Bug: the catch block does not end the process; control falls through to
\* the finally block.
ProcessExit_Missing ==
    /\ pc = "exit"
    /\ pc' = "finally"
    /\ UNCHANGED <<ip, browser, context, page, inflight, attempts, completed,
                   faulted, error, log, closeCalls, videoSaved, exitCode>>

\* Bug: process.exit() without the error status.
ProcessExit_Zero ==
    /\ pc = "exit"
    /\ exitCode' = 0
    /\ pc' = "done"
    /\ UNCHANGED <<ip, browser, context, page, inflight, attempts, completed,
                   faulted, error, log, closeCalls, videoSaved>>

\* process.exit(1): the process ends here; the call does not return, so
\* the finally block is not entered.
ProcessExit ==
    /\ pc = "exit"
    /\ exitCode' = CatchExitCode
    /\ pc' = "done"
    /\ UNCHANGED <<ip, browser, context, page, inflight, attempts, completed,
                   faulted, error, log, closeCalls, videoSaved>>

\* finally { if (browser) { await browser.close(); } }
Finally ==
    /\ pc = "finally"
    /\ IF browser # "undefined"
       THEN /\ closeCalls' = closeCalls + 1
            /\ inflight' = inflight \cup {"browserClose"}
            /\ pc' = "awaitClose"
       ELSE /\ pc' = "return"
            /\ UNCHANGED <<closeCalls, inflight>>
    /\ UNCHANGED <<ip, browser, context, page, attempts, completed, faulted,
                   error, log, videoSaved, exitCode>>

\* browser.close() resolves.
CloseResolve ==
    /\ pc = "awaitClose"
    /\ inflight' = inflight \ {"browserClose"}
    /\ browser' = "closed"
    /\ pc' = "return"
    /\ UNCHANGED <<ip, context, page, attempts, completed, faulted, error,
                   log, closeCalls, videoSaved, exitCode>>

\* browser.close() rejects inside finally: the main promise rejects.
CloseReject(m) ==
    /\ pc = "awaitClose"
    /\ inflight' = inflight \ {"browserClose"}
    /\ faulted' = "browserClose"
    /\ error' = m
    /\ pc' = "unhandled"
    /\ UNCHANGED <<ip, browser, context, page, attempts, completed, log,
                   closeCalls, videoSaved, exitCode>>

\* The main function returns; nothing is left to run and the process ends
\* with the default status.
Return ==
    /\ pc = "return"
    /\ exitCode' = 0
    /\ pc' = "done"
    /\ UNCHANGED <<ip, browser, context, page, inflight, attempts, completed,
                   faulted, error, log, closeCalls, videoSaved>>

\* The main promise rejected and nothing handles it: the runtime ends the
\* process.
UnhandledRejection ==
    /\ pc = "unhandled"
    /\ \E c \in UnhandledExitCodes : exitCode' = c
    /\ pc' = "done"
    /\ UNCHANGED <<ip, browser, context, page, inflight, attempts, completed,
                   faulted, error, log, closeCalls, videoSaved>>

Next ==
    \/ Start
    \/ Call
    \/ Resolve
    \/ \E m \in Messages : Reject(m)
    \/ LogSuccess
    \/ CatchLog
    \/ ProcessExit
    \/ Finally
    \/ CloseResolve
    \/ \E m \in Messages : CloseReject(m)
    \/ Return
    \/ UnhandledRejection

Spec == Init /\ [][Next]_vars

(***************************************************************************)
(* Properties                                                              *)
(***************************************************************************)

\* Number of lines of the console output whose text is l.
CountLines(l) == Cardinality({i \in 1..Len(log) : log[i].line = l})

Logged(l) == CountLines(l) > 0

\* Some step of the nine-step sequence rejected.
StepFaulted == faulted \in StepNames

\* The run is over: the process has an exit status.
Ended == pc = "done"

\* The nine steps in the order the specification gives them.
NineStepOrder ==
    <<"launch", "newContext", "newPage", "goto", "waitForSelector",
      "fill", "click", "waitForTimeout", "contextClose">>

\* C1: in a run that acquired a browser, browser.close has executed exactly
\* once by the time the process ends, whether the run succeeded or a step
\* faulted: never zero times and never twice.
C1_BrowserClosedExactlyOnce ==
    (Ended /\ "launch" \in completed) => closeCalls = 1

C3_ContextClosedBeforeBrowser ==
    ~StepFaulted =>
        /\ closeCalls > 0 =>
              ("contextClose" \in completed /\ context = "closed")
        /\ (Ended /\ exitCode = 0) => videoSaved

C3_Witness ==
    Ended /\ exitCode = 0 /\ closeCalls = 1 /\ browser = "closed"
          /\ context = "closed" /\ videoSaved

\* C4: if navigation to the target URL faults, context.close is never
\* reached, no video is finalized, and the process exits with status 1.
C4_NavigationFault ==
    faulted = "goto" =>
        /\ attempts["contextClose"] = 0
        /\ context # "closed"
        /\ ~videoSaved
        /\ Ended => exitCode = 1

C4_Witness == Ended /\ faulted = "goto" /\ exitCode = 1

\* C5: the nine steps run in strict order: a step starts only after the
\* previous one completed, at most one call is in progress at any time, and
\* at most one context and one page are opened per run.
C5_StrictSequence ==
    /\ \A i \in 2..Len(NineStepOrder) :
          attempts[NineStepOrder[i]] > 0 =>
              NineStepOrder[i - 1] \in completed
    /\ Cardinality(inflight) <= 1
    /\ attempts["newContext"] <= 1
    /\ attempts["newPage"] <= 1

C5_Witness ==
    pc = "await" /\ inflight = {"contextClose"}
                 /\ completed = StepNames \ {"contextClose"}

\* C6: no step is retried and a fault is terminal: each of the nine steps
\* is attempted at most once, and after a step faulted no later step of the
\* sequence is attempted (every attempted step other than the faulted one
\* had completed before).
C6_NoRetryFaultTerminal ==
    /\ \A s \in StepNames : attempts[s] <= 1
    /\ StepFaulted =>
          /\ inflight = {}
          /\ \A s \in StepNames :
                attempts[s] > 0 => (s = faulted \/ s \in completed)
          /\ faulted \notin completed

C6_Witness ==
    Ended /\ faulted = "waitForSelector" /\ attempts["waitForSelector"] = 1
          /\ attempts["fill"] = 0

\* C7: a failed run logs exactly one failure line, a run that logged the
\* failure line has logged neither 'QA test passed!' nor the success line,
\* and a run that logged a success line never logs the failure line.
C7_NoPartialSuccess ==
    /\ CountLines("FAILED") <= 1
    /\ (Ended /\ StepFaulted) => CountLines("FAILED") = 1
    /\ Logged("FAILED") => (~Logged("passed") /\ ~Logged("Success"))

C9_LaunchFault ==
    /\ closeCalls > 0 => ("launch" \in completed /\ browser # "undefined")
    /\ faulted = "launch" =>
          /\ closeCalls = 0
          /\ browser = "undefined"
          /\ context = "undefined" /\ page = "undefined"
          /\ attempts["newContext"] = 0 /\ attempts["newPage"] = 0
          /\ Ended => (exitCode = 1 /\ CountLines("FAILED") = 1)

C9_Witness ==
    Ended /\ faulted = "launch" /\ exitCode = 1 /\ closeCalls = 0

\* C10: at termination no acquired handle is left unreleased: every browser
\* that was launched has been closed and every context that was opened has
\* been closed.
C10_ReleasedAtTermination ==
    Ended => (browser # "open" /\ context # "open")

====
